---- MODULE Spec2Model ----
(***************************************************************************)
(* Books API: request handlers (main.py), validation models (models.py)    *)
(* and the record store (database.py).                                     *)
(*                                                                         *)
(* Python values are modelled as follows.                                  *)
(*   Optional[x]      the set {} for None, {v} for the value v             *)
(*   dict             a function from keys (strings) to values             *)
(*   str              a tuple of one-character strings                     *)
(*   table books      a function from the ids of the rows present to rows  *)
(***************************************************************************)
EXTENDS Integers, Sequences, FiniteSets, TLC

\* ------------------------------------------------------------------ bounds
MaxCreates == 2        \* inserts performed in one behaviour
NumWorkers == 2        \* request threads of the hosting HTTP layer
MaxSkip == 3           \* largest OFFSET tried
MaxStoreErrors == 1    \* store calls that fail after the session was opened

\* ------------------------------------------------------- program constants
LimitMax == 100

Workers == 1 .. NumWorkers
Ids == 1 .. (MaxCreates + 1)

None == {}
Some(v) == {v}
EmptyDict == [k \in {} |-> None]

\* ------------------------------------------------------------- models.py
InputFields == {"title", "author", "publisher", "price", "publish_date", "isbn", "cover_url"}
Columns == {"id", "title", "author", "publisher", "price", "publish_date", "isbn", "cover_url", "created_at"}

Digits == {"0", "1", "2", "3", "4", "5", "6", "7", "8", "9"}

\* Field(pattern=r'^\d{4}-\d{2}-\d{2}$')
MatchesDatePattern(s) ==
    /\ Len(s) = 10
    /\ \A i \in {1, 2, 3, 4, 6, 7, 9, 10} : s[i] \in Digits
    /\ s[5] = "-"
    /\ s[8] = "-"

\* Field(None, min_length=1) on title and author
MinLengthOk(v) == \A s \in v : Len(s) >= 1

PriceGtZeroLoose(v) == \A n \in v : n >= 0
\* Field(None, gt=0) and validate_price_on_create
PriceGtZero(v) == \A n \in v : n > 0

\* The value of field f of a request body: the default None when absent.
FieldOf(raw, f) == IF f \in DOMAIN raw THEN raw[f] ELSE None

\* BookCreate(**raw) succeeds
BookCreateValid(raw) ==
    /\ MinLengthOk(FieldOf(raw, "title"))
    /\ MinLengthOk(FieldOf(raw, "author"))
    /\ PriceGtZero(FieldOf(raw, "price"))
    /\ \A s \in FieldOf(raw, "publish_date") : MatchesDatePattern(s)

\* The validated model: every field with its value or default, and the set
\* of the fields the request supplied.
BookCreate(raw) ==
    [values |-> [f \in InputFields |-> FieldOf(raw, f)],
     fields_set |-> DOMAIN raw]

\* book.dict(exclude_unset=True)
DictExcludeUnset(book) == [f \in book.fields_set |-> book.values[f]]

\* BookResponse: the fields that must be populated in an output record.  The
\* HTTP layer applies it when it serialises what a handler returned; resp
\* below is what the handler returned.
BookResponse(row) ==
    /\ row.id # None
    /\ row.title # None
    /\ row.author # None
    /\ PriceGtZero(row.price) /\ row.price # None
    /\ row.created_at # None

\* ----------------------------------------------------------- database.py
\* Store schema (not part of the sources): columns that reject NULL.
NotNullColumns == {}

\* Store schema: the id the next INSERT is given.
NextRowid(books, seq) == seq + 1

\* Store schema: created_at default, the time of the insert.
CurrentTimestamp(seq) == seq + 1

\* dict.get(key)
Get(d, k) == IF k \in DOMAIN d THEN d[k] ELSE None

\* Outcome of one store call.  fault is "none", "connect" (get_db_connection
\* raises, no session was opened) or "execute" (a statement raises after the
\* session was opened; conn.close() is not reached).
Call(fault, books, after, ret) ==
    [books |-> IF fault = "none" THEN after ELSE books,
     ret |-> ret,
     raised |-> fault # "none",
     open |-> IF fault = "execute" THEN 1 ELSE 0]

\* ids in ascending order
RECURSIVE SortedIds(_)
SortedIds(S) ==
    IF S = {} THEN << >>
    ELSE LET m == CHOOSE x \in S : \A y \in S : x <= y
         IN  << m >> \o SortedIds(S \ {m})

SelectPageNoOffset(books, limit, skip) ==
    LET ids == SortedIds(DOMAIN books)
        last == IF limit < Len(ids) THEN limit ELSE Len(ids)
    IN  [k \in 1 .. last |-> books[ids[k]]]
\* SELECT * FROM books ORDER BY id LIMIT ? OFFSET ?
SelectPage(books, limit, skip) ==
    LET ids == SortedIds(DOMAIN books)
        last == IF skip + limit < Len(ids) THEN skip + limit ELSE Len(ids)
    IN  [k \in 1 .. (IF last > skip THEN last - skip ELSE 0) |-> books[ids[skip + k]]]

database_get_all_books(books, skip, limit, fault) ==
    Call(fault, books, books, SelectPage(books, limit, skip))

database_get_book_by_id_any(books, book_id, fault) ==
    Call(fault, books, books,
         IF DOMAIN books # {} THEN Some(books[CHOOSE i \in DOMAIN books : TRUE]) ELSE None)
\* fetchone(): the row, or None
database_get_book_by_id(books, book_id, fault) ==
    Call(fault, books, books,
         IF book_id \in DOMAIN books THEN Some(books[book_id]) ELSE None)

\* INSERT INTO books (columns) VALUES (...): absent columns take the defaults
InsertRow(data, rowid, now) ==
    [c \in Columns |->
        IF c \in DOMAIN data THEN data[c]
        ELSE IF c = "id" THEN Some(rowid)
        ELSE IF c = "created_at" THEN Some(now)
        ELSE None]

LastInsertRowidCount(books, rowid) == Cardinality(DOMAIN books)
LastInsertRowidMin(books, rowid) == CHOOSE i \in DOMAIN books : \A j \in DOMAIN books : i <= j
\* SELECT last_insert_rowid()
LastInsertRowid(books, rowid) == rowid

database_create_book(books, seq, book_data, fault) ==
    LET filtered_data == [k \in {j \in DOMAIN book_data : book_data[j] # None} |-> book_data[k]]
        rowid == NextRowid(books, seq)
        row == InsertRow(filtered_data, rowid, CurrentTimestamp(seq))
        rejected == \/ filtered_data = EmptyDict
                    \/ \E c \in NotNullColumns : row[c] = None
        f == IF fault = "none" /\ rejected THEN "execute" ELSE fault
        after == (rowid :> row) @@ books
    IN  Call(f, books, after, LastInsertRowid(after, rowid))

UpdateRowAll(row, data) ==
    [c \in Columns |-> IF c \in DOMAIN data THEN data[c]
                       ELSE IF c \in InputFields THEN None ELSE row[c]]
\* UPDATE books SET c = ? ... : the supplied columns change, the rest stay
UpdateRow(row, data) ==
    [c \in Columns |-> IF c \in DOMAIN data THEN data[c] ELSE row[c]]

UpsertWhere(books, book_id, data) ==
    (book_id :> UpdateRow([c \in Columns |-> IF c = "id" THEN Some(book_id) ELSE None], data)) @@ books
\* ... WHERE id = ? on a table without that id affects no row
UpdateWhere(books, book_id, data) ==
    IF book_id \in DOMAIN books
    THEN [books EXCEPT ![book_id] = UpdateRow(books[book_id], data)]
    ELSE books

database_update_book(books, book_id, book_data, fault) ==
    LET update_data == [k \in {j \in DOMAIN book_data : j \notin {"id", "created_at"}} |-> book_data[k]]
        rejected == \/ update_data = EmptyDict
                    \/ /\ book_id \in DOMAIN books
                       /\ \E c \in NotNullColumns \cap DOMAIN update_data : update_data[c] = None
        f == IF fault = "none" /\ rejected THEN "execute" ELSE fault
        rowcount == IF book_id \in DOMAIN books THEN 1 ELSE 0
    IN  Call(f, books, UpdateWhere(books, book_id, update_data), rowcount = 1)

DeleteWhereAll(books, book_id) ==
    IF book_id \in DOMAIN books THEN [i \in {} |-> books[i]] ELSE books
\* DELETE FROM books WHERE id = ?
DeleteWhere(books, book_id) ==
    [i \in DOMAIN books \ {book_id} |-> books[i]]

database_delete_book(books, book_id, fault) ==
    LET rowcount == IF book_id \in DOMAIN books THEN 1 ELSE 0
    IN  Call(fault, books, DeleteWhere(books, book_id), rowcount = 1)

\* ------------------------------------------------------------ request inputs
T == << "T" >>
U == << "U" >>
A == << "A" >>
P == << "P" >>
EmptyStr == << >>
GoodDate == << "2", "0", "2", "5", "-", "1", "2", "-", "3", "1" >>
BadDate == << "2", "0", "2", "5", "/", "1", "2" >>

Required == ("title" :> Some(T)) @@ ("author" :> Some(A)) @@ ("price" :> Some(100))

\* Bodies sent to POST /books
AllCreateInputs ==
    { Required,
      Required @@ ("publisher" :> None),
      Required @@ ("publisher" :> Some(P)) @@ ("publish_date" :> Some(GoodDate)) @@ ("isbn" :> None),
      EmptyDict,
      ("author" :> Some(A)) @@ ("price" :> Some(100)),
      ("title" :> Some(T)) @@ ("price" :> Some(100)),
      ("title" :> Some(T)) @@ ("author" :> Some(A)),
      ("title" :> Some(EmptyStr)) @@ Required,
      ("author" :> Some(EmptyStr)) @@ Required,
      ("price" :> Some(0)) @@ Required,
      ("price" :> Some(0 - 5)) @@ Required,
      ("title" :> None) @@ Required,
      ("author" :> None) @@ Required,
      ("price" :> None) @@ Required,
      Required @@ ("publish_date" :> Some(BadDate)) }

\* Bodies sent to PUT /books/{book_id}
AllUpdateInputs ==
    { EmptyDict,
      ("price" :> Some(500)),
      ("title" :> Some(U)) @@ ("isbn" :> None),
      ("title" :> None),
      ("price" :> Some(0)),
      ("title" :> Some(EmptyStr)),
      ("publish_date" :> Some(BadDate)) }

AllSkips == (0 - 1) .. MaxSkip
AllLimits == {0, 1, 2, LimitMax, LimitMax + 1}

\* The requests tried when store calls interleave or may raise: one of each
\* kind of outcome.
FewCreateInputs == { Required, ("price" :> Some(0)) @@ Required }
FewUpdateInputs == { EmptyDict, ("price" :> Some(500)), ("price" :> Some(0)) }
FewSkips == {0}
FewLimits == {0, 1}

\* ------------------------------------------------------------------- state
VARIABLES
    books,          \* table books: id -> row
    seq,            \* largest id the store has assigned
    w,              \* per worker: the request it is executing
    resp,           \* the response sent by the latest step, if any
    openSessions,   \* store sessions opened and not closed
    serial,         \* TRUE: the HTTP layer runs all requests on worker 1
    faults,         \* TRUE: store calls may raise
    maxReturned,    \* history: largest id a 201 response has carried
    deleted         \* history: ids a 204 response was sent for

vars == << books, seq, w, resp, openSessions, serial, faults, maxReturned, deleted >>

AllInputs == serial /\ ~faults
CreateInputs == IF AllInputs THEN AllCreateInputs ELSE FewCreateInputs
UpdateInputs == IF AllInputs THEN AllUpdateInputs ELSE FewUpdateInputs
Skips == IF AllInputs THEN AllSkips ELSE FewSkips
Limits == IF AllInputs THEN AllLimits ELSE FewLimits

Idle == [pc |-> "idle", id |-> 0, body |-> EmptyDict]

Response(op, id, body, skip, limit, status, detail, result) ==
    [op |-> op, id |-> id, body |-> body, skip |-> skip, limit |-> limit,
     status |-> status, detail |-> detail, result |-> result]

NoResponse == Response("none", 0, EmptyDict, 0, 0, 0, "", << >>)

\* An exception of the store driver is not caught by any handler: 500.
StoreError(op, id, body) ==
    Response(op, id, body, 0, 0, 500, "store error", << >>)

\* Request validation of the HTTP layer failed: 422.
RequestValidationError(op, id, body, skip, limit) ==
    Response(op, id, body, skip, limit, 422, "validation error", << >>)

HTTPException(op, id, body, status, detail) ==
    Response(op, id, body, 0, 0, status, detail, << >>)

FaultChoices ==
    IF faults /\ openSessions < MaxStoreErrors
    THEN {"none", "connect", "execute"} ELSE {"none"}

CanStart(p) ==
    /\ w[p].pc = "idle"
    /\ serial => p = 1

\* `not x` for an Optional[str]
Falsy(v) == v = None \/ \E s \in v : Len(s) = 0

TypeInit ==
    /\ books = [i \in {} |-> None]
    /\ seq = 0
    /\ w = [p \in Workers |-> Idle]
    /\ resp = NoResponse
    /\ openSessions = 0
    /\ maxReturned = 0
    /\ deleted = {}

\* One request at a time, store available.
Init == TypeInit /\ serial = TRUE /\ faults = FALSE
\* Requests of several workers interleave their store calls.
ConcInit == TypeInit /\ serial = FALSE /\ faults = FALSE
\* One request at a time, store calls may raise.
FaultInit == TypeInit /\ serial = TRUE /\ faults = TRUE

\* ---------------------------------------------------------------- main.py
\* GET /books
read_books(p) ==
    /\ CanStart(p)
    /\ \E skip \in Skips, limit \in Limits, fault \in FaultChoices :
        IF ~(skip >= 0 /\ limit > 0 /\ limit <= LimitMax)
        THEN /\ resp' = RequestValidationError("read_books", 0, EmptyDict, skip, limit)
             /\ UNCHANGED openSessions
        ELSE LET r == database_get_all_books(books, skip, limit, fault)
             IN  /\ openSessions' = openSessions + r.open
                 /\ resp' = IF r.raised THEN StoreError("read_books", 0, EmptyDict)
                            ELSE Response("read_books", 0, EmptyDict, skip, limit, 200, "", r.ret)
    /\ UNCHANGED << books, seq, w, serial, faults, maxReturned, deleted >>

\* GET /books/{book_id}
read_book(p) ==
    /\ CanStart(p)
    /\ \E book_id \in Ids, fault \in FaultChoices :
        LET r == database_get_book_by_id(books, book_id, fault)
        IN  /\ openSessions' = openSessions + r.open
            /\ resp' = IF r.raised THEN StoreError("read_book", book_id, EmptyDict)
                       ELSE IF r.ret = None
                       THEN HTTPException("read_book", book_id, EmptyDict, 404, "not found")
                       ELSE Response("read_book", book_id, EmptyDict, 0, 0, 200, "",
                                     << CHOOSE row \in r.ret : TRUE >>)
    /\ UNCHANGED << books, seq, w, serial, faults, maxReturned, deleted >>

RequiredPresentNoPrice(book_data) ==
    ~(Falsy(Get(book_data, "title")) \/ Falsy(Get(book_data, "author")))
\* the check of lines 66-70: title, author and price are supplied
RequiredPresent(book_data) ==
    ~(\/ Falsy(Get(book_data, "title"))
      \/ Falsy(Get(book_data, "author"))
      \/ Get(book_data, "price") = None)

\* POST /books, up to and including database.create_book
create_book(p) ==
    /\ CanStart(p)
    /\ \E raw \in CreateInputs, fault \in FaultChoices :
        IF ~BookCreateValid(raw)
        THEN /\ resp' = RequestValidationError("create_book", 0, raw, 0, 0)
             /\ UNCHANGED << books, seq, w, openSessions >>
        ELSE LET book_data == DictExcludeUnset(BookCreate(raw))
             IN  IF ~RequiredPresent(book_data)
                 THEN /\ resp' = HTTPException("create_book", 0, raw, 422,
                                     "Title, Author, and Price are required fields.")
                      /\ UNCHANGED << books, seq, w, openSessions >>
                 ELSE LET r == database_create_book(books, seq, book_data, fault)
                      IN  /\ seq < MaxCreates
                          /\ openSessions' = openSessions + r.open
                          /\ books' = r.books
                          /\ IF r.raised
                             THEN /\ resp' = StoreError("create_book", 0, raw)
                                  /\ UNCHANGED << seq, w >>
                             ELSE /\ resp' = NoResponse
                                  /\ seq' = NextRowid(books, seq)
                                  /\ w' = [w EXCEPT ![p] = [pc |-> "create_refetch", id |-> r.ret, body |-> raw]]
    /\ UNCHANGED << serial, faults, maxReturned, deleted >>

\* POST /books, from database.get_book_by_id(new_id) on
create_book_refetch(p) ==
    /\ w[p].pc = "create_refetch"
    /\ \E fault \in FaultChoices :
        LET new_id == w[p].id
            r == database_get_book_by_id(books, new_id, fault)
        IN  /\ openSessions' = openSessions + r.open
            /\ IF r.raised
               THEN /\ resp' = StoreError("create_book", new_id, w[p].body)
                    /\ UNCHANGED maxReturned
               ELSE IF r.ret = None
               THEN /\ resp' = HTTPException("create_book", new_id, w[p].body, 500,
                                   "Failed to retrieve newly created book.")
                    /\ UNCHANGED maxReturned
               ELSE LET new_book == CHOOSE row \in r.ret : TRUE
                        rid == CHOOSE i \in new_book.id : TRUE
                    IN  /\ resp' = Response("create_book", new_id, w[p].body, 0, 0, 201, "", << new_book >>)
                        /\ maxReturned' = IF rid > maxReturned THEN rid ELSE maxReturned
    /\ w' = [w EXCEPT ![p] = Idle]
    /\ UNCHANGED << books, seq, serial, faults, deleted >>

\* PUT /books/{book_id}, up to the check of the body
update_book(p) ==
    /\ CanStart(p)
    /\ \E book_id \in Ids, raw \in UpdateInputs, fault \in FaultChoices :
        IF ~BookCreateValid(raw)
        THEN /\ resp' = RequestValidationError("update_book", book_id, raw, 0, 0)
             /\ UNCHANGED << w, openSessions >>
        ELSE LET r == database_get_book_by_id(books, book_id, fault)
                 update_data == DictExcludeUnset(BookCreate(raw))
             IN  /\ openSessions' = openSessions + r.open
                 /\ IF r.raised
                    THEN /\ resp' = StoreError("update_book", book_id, raw)
                         /\ UNCHANGED w
                    ELSE IF r.ret = None
                    THEN /\ resp' = HTTPException("update_book", book_id, raw, 404, "not found")
                         /\ UNCHANGED w
                    ELSE IF update_data = EmptyDict
                    THEN /\ resp' = HTTPException("update_book", book_id, raw, 400,
                                        "Request body cannot be empty for an update.")
                         /\ UNCHANGED w
                    ELSE /\ resp' = NoResponse
                         /\ w' = [w EXCEPT ![p] = [pc |-> "update", id |-> book_id, body |-> update_data]]
    /\ UNCHANGED << books, seq, serial, faults, maxReturned, deleted >>

\* PUT /books/{book_id}: database.update_book and the check of its result
update_book_update(p) ==
    /\ w[p].pc = "update"
    /\ \E fault \in FaultChoices :
        LET r == database_update_book(books, w[p].id, w[p].body, fault)
        IN  /\ openSessions' = openSessions + r.open
            /\ books' = r.books
            /\ IF r.raised
               THEN /\ resp' = StoreError("update_book", w[p].id, w[p].body)
                    /\ w' = [w EXCEPT ![p] = Idle]
               ELSE IF ~r.ret
               THEN /\ resp' = HTTPException("update_book", w[p].id, w[p].body, 500,
                                   "Failed to update book due to internal error.")
                    /\ w' = [w EXCEPT ![p] = Idle]
               ELSE /\ resp' = NoResponse
                    /\ w' = [w EXCEPT ![p].pc = "update_refetch"]
    /\ UNCHANGED << seq, serial, faults, maxReturned, deleted >>

\* PUT /books/{book_id}: the re-read of the updated row
update_book_refetch(p) ==
    /\ w[p].pc = "update_refetch"
    /\ \E fault \in FaultChoices :
        LET r == database_get_book_by_id(books, w[p].id, fault)
        IN  /\ openSessions' = openSessions + r.open
            /\ resp' = IF r.raised THEN StoreError("update_book", w[p].id, w[p].body)
                       ELSE IF r.ret = None
                       THEN HTTPException("update_book", w[p].id, w[p].body, 500,
                                          "Updated book disappeared.")
                       ELSE Response("update_book", w[p].id, w[p].body, 0, 0, 200, "",
                                     << CHOOSE row \in r.ret : TRUE >>)
    /\ w' = [w EXCEPT ![p] = Idle]
    /\ UNCHANGED << books, seq, serial, faults, maxReturned, deleted >>

\* DELETE /books/{book_id}
delete_book(p) ==
    /\ CanStart(p)
    /\ \E book_id \in Ids, fault \in FaultChoices :
        LET r == database_delete_book(books, book_id, fault)
        IN  /\ openSessions' = openSessions + r.open
            /\ books' = r.books
            /\ IF r.raised
               THEN /\ resp' = StoreError("delete_book", book_id, EmptyDict)
                    /\ UNCHANGED deleted
               ELSE IF ~r.ret
               THEN /\ resp' = HTTPException("delete_book", book_id, EmptyDict, 404, "not found")
                    /\ UNCHANGED deleted
               ELSE /\ resp' = Response("delete_book", book_id, EmptyDict, 0, 0, 204, "", << >>)
                    /\ deleted' = deleted \cup {book_id}
    /\ UNCHANGED << seq, w, serial, faults, maxReturned >>

Next ==
    \E p \in Workers :
        \/ read_books(p)
        \/ read_book(p)
        \/ create_book(p)
        \/ create_book_refetch(p)
        \/ update_book(p)
        \/ update_book_update(p)
        \/ update_book_refetch(p)
        \/ delete_book(p)

Spec == Init /\ [][Next]_vars
ConcSpec == ConcInit /\ [][Next]_vars
FaultSpec == FaultInit /\ [][Next]_vars

\* ================================================================= claims
Anomalies ==
    { "Failed to retrieve newly created book.",
      "Failed to update book due to internal error.",
      "Updated book disappeared." }

\* the number of stored ids smaller than i
Rank(i) == Cardinality({j \in DOMAIN books : j < i})

\* C1: every stored record has a non-null title, a non-null author and a
\* non-null price > 0, whatever accepted bodies the requests carried.
StoredRecordsPopulated ==
    \A i \in DOMAIN books :
        /\ books[i].title # None
        /\ books[i].author # None
        /\ books[i].price # None
        /\ \A n \in books[i].price : n > 0

RejectedCreateBody(raw) ==
    \/ {"title", "author", "price"} \ DOMAIN raw # {}
    \/ raw.title = Some(EmptyStr)
    \/ raw.author = Some(EmptyStr)
    \/ \E n \in raw.price : n <= 0

\* C4: a Create with such a body is answered 422, inserts no row and
\* consumes no id.
InvalidCreateRejected ==
    [][(resp'.op = "create_book" /\ RejectedCreateBody(resp'.body)) =>
          /\ resp'.status = 422
          /\ books' = books
          /\ seq' = seq
          /\ \A p \in Workers : w[p].pc = "idle" /\ w'[p].pc = "idle"]_vars

ZeroPriceCreateRejected ==
    /\ resp.op = "create_book"
    /\ resp.status = 422
    /\ "price" \in DOMAIN resp.body
    /\ resp.body.price = Some(0)
    /\ DOMAIN books = {1}
    /\ seq = 1

\* C5: a Replace on an id that is not stored is answered 404 for every body
\* of the CreateOrReplace shape, the empty one included; a Replace on a
\* stored id with an empty body is answered 400; the store is unchanged.
ReplaceNotFoundOrEmpty ==
    [][(resp'.op = "update_book" /\ BookCreateValid(resp'.body)) =>
          /\ resp'.id \notin DOMAIN books => (resp'.status = 404 /\ books' = books)
          /\ (resp'.id \in DOMAIN books /\ DOMAIN resp'.body = {}) =>
                (resp'.status = 400 /\ books' = books)]_vars

EmptyReplaceOnMissingId ==
    /\ resp.op = "update_book"
    /\ resp.status = 404
    /\ DOMAIN resp.body = {}
    /\ resp.id \notin DOMAIN books
    /\ DOMAIN books # {}

\* C6: a Delete of a stored id is answered 204 and removes that row only; a
\* Get or Delete of the same id right after is answered 404; a Delete of an
\* id that is not stored is answered 404 and changes nothing.
DeleteRemovesExactlyOne ==
    [][/\ (resp'.op = "delete_book" /\ resp'.id \in DOMAIN books) =>
            /\ resp'.status = 204
            /\ DOMAIN books' = DOMAIN books \ {resp'.id}
            /\ \A j \in DOMAIN books' : books'[j] = books[j]
       /\ (resp'.op = "delete_book" /\ resp'.id \notin DOMAIN books) =>
            /\ resp'.status = 404
            /\ books' = books
       /\ (/\ resp.op = "delete_book" /\ resp.status = 204
           /\ resp'.op \in {"read_book", "delete_book"} /\ resp'.id = resp.id) =>
            resp'.status = 404]_vars

DeletedOneOfTwo ==
    /\ resp.op = "delete_book"
    /\ resp.status = 204
    /\ resp.id = 1
    /\ DOMAIN books = {2}

\* C7: List with offset o >= 0 and limit l in (0,100] is answered with the
\* rows of rank o .. o+l-1 in ascending id order, and changes nothing.
ListIsSlice ==
    /\ [](resp.op = "read_books" =>
            IF resp.skip >= 0 /\ resp.limit > 0 /\ resp.limit <= 100
            THEN /\ resp.status = 200
                 /\ Len(resp.result) <= resp.limit
                 /\ \A i \in DOMAIN books :
                       (Rank(i) >= resp.skip /\ Rank(i) < resp.skip + resp.limit) =>
                           /\ Rank(i) - resp.skip + 1 \in DOMAIN resp.result
                           /\ resp.result[Rank(i) - resp.skip + 1] = books[i]
                 /\ \A k \in DOMAIN resp.result :
                       \E i \in DOMAIN books :
                           resp.result[k] = books[i] /\ Rank(i) = resp.skip + k - 1
                 /\ (resp.skip >= Cardinality(DOMAIN books) => resp.result = << >>)
            ELSE resp.status = 422)
    /\ [][resp'.op = "read_books" => books' = books]_vars

SecondPageListed ==
    /\ resp.op = "read_books"
    /\ resp.status = 200
    /\ resp.skip = 1
    /\ resp.limit = 1
    /\ Len(resp.result) = 1
    /\ DOMAIN books = {1, 2}

\* C8: with one request at a time and the store available, no Create and no
\* Replace ends in one of the three defensive 500 answers.
NoIntegrityAnomaly ==
    /\ resp.detail \notin Anomalies
    /\ \A p \in Workers : w[p].pc # "idle" => w[p].id \in DOMAIN books

CreateAndReplaceAfterDelete ==
    /\ resp.op = "update_book"
    /\ resp.status = 200
    /\ resp.id = 2
    /\ 1 \in deleted

\* C9 as stated: a Replace racing with a Delete of its id ends in 200, 404
\* or 500, and a deleted id is never stored again.
ReplaceEnds200Or404Or500 ==
    /\ (resp.op = "update_book" /\ BookCreateValid(resp.body)) => resp.status \in {200, 404, 500}
    /\ deleted \cap DOMAIN books = {}

\* C9 as amended: such a Replace ends in 200, 404 or 500, or in 400 when its
\* body supplies no field; a deleted id is never stored again; a 200 answer
\* carries the row that the re-fetch found in the store.
ReplaceRacingDelete ==
    /\ [](/\ (resp.op = "update_book" /\ BookCreateValid(resp.body)) =>
                /\ resp.status \in {200, 400, 404, 500}
                /\ resp.status = 400 => DOMAIN resp.body = {}
          /\ deleted \cap DOMAIN books = {})
    /\ [][\A p \in Workers :
             (w[p].pc = "update_refetch" /\ w'[p].pc = "idle" /\ resp'.status = 200) =>
                 /\ w[p].id \in DOMAIN books
                 /\ resp'.result = << books[w[p].id] >>]_vars

DeleteBetweenCheckAndUpdate ==
    /\ resp.op = "update_book"
    /\ resp.status = 500
    /\ resp.detail = "Failed to update book due to internal error."
    /\ resp.id \in deleted
    /\ resp.id \notin DOMAIN books

\* C10: every store call has closed its session when it ends, also when it
\* ends in a store error: between store calls no session is open.
SessionsReleased == openSessions = 0

====
